---- MODULE Spec2Model ----
(***************************************************************************)
(* A model of smc-influxdb.c: one run of main, which parses its options,   *)
(* opens the AppleSMC connection, reads temperature keys and fan keys      *)
(* through the two-phase SMCReadKey exchange, prints line-protocol lines   *)
(* and closes the connection.                                              *)
(*                                                                         *)
(* Conventions.                                                            *)
(*  - A C string is a sequence of one-character strings; ASCII gives the   *)
(*    character codes.  A byte is a number in 0..255; plain char is signed *)
(*    on the platforms that have IOKit, so a byte read through a char      *)
(*    lvalue is SChar(b).  A left shift of a negative char is taken as the *)
(*    two's complement product every such build produces.                  *)
(*  - A temperature is kept in units of 1/256 degree, an RPM in units of   *)
(*    1/4 (record [k, q]; k is "num" or "nan"), a percentage as the exact  *)
(*    ratio n/d (record [k, n, d]).                                        *)
(*  - stdout is observed through out: the line printed by the latest step, *)
(*    NoLine when that step printed nothing.  The host tag and the         *)
(*    timestamp of a line are not modelled.                                *)
(***************************************************************************)
EXTENDS Integers, Sequences, FiniteSets, TLC

\* ------------------------------------------------------------------ bounds
\* longest option list given on the command line
MaxArgs == 2
\* largest fan count the controller reports in the last byte of FNum
MaxFans == 11

\* ------------------------------------------------------- program constants
KERNEL_INDEX_SMC == 2
SMC_CMD_READ_BYTES == 5
SMC_CMD_READ_KEYINFO == 9
\* sizeof(UInt32Char_t)
KeyBufLen == 5

kIOReturnSuccess == "kIOReturnSuccess"
\* failures IOConnectCallStructMethod reports on an open connection
CallFailures == {"kIOReturnNotPrivileged", "kIOReturnError"}
\* what it reports for a connection that is not open
BadConn == "MACH_SEND_INVALID_DEST"

\* ------------------------------------------------------------- characters
ASCII ==
    " " :> 32 @@
    "0" :> 48 @@ "1" :> 49 @@ "2" :> 50 @@ "3" :> 51 @@ "4" :> 52 @@
    "5" :> 53 @@ "6" :> 54 @@ "7" :> 55 @@ "8" :> 56 @@ "9" :> 57 @@
    "A" :> 65 @@ "B" :> 66 @@ "C" :> 67 @@ "D" :> 68 @@ "E" :> 69 @@
    "F" :> 70 @@ "G" :> 71 @@ "H" :> 72 @@ "I" :> 73 @@ "L" :> 76 @@
    "M" :> 77 @@ "N" :> 78 @@ "P" :> 80 @@ "R" :> 82 @@ "S" :> 83 @@
    "T" :> 84 @@ "V" :> 86 @@ "W" :> 87 @@ "X" :> 88 @@ "a" :> 97 @@
    "b" :> 98 @@ "c" :> 99 @@ "e" :> 101 @@ "f" :> 102 @@ "h" :> 104 @@
    "i" :> 105 @@ "l" :> 108 @@ "m" :> 109 @@ "n" :> 110 @@ "p" :> 112 @@
    "r" :> 114 @@ "s" :> 115 @@ "t" :> 116 @@ "u" :> 117 @@ "x" :> 120

Chr(code) == CHOOSE c \in DOMAIN ASCII : ASCII[c] = code

RECURSIVE Pow2(_)
Pow2(n) == IF n = 0 THEN 1 ELSE 2 * Pow2(n - 1)

\* the value of a byte read through a (signed) char lvalue
SChar(b) == IF b >= 128 THEN b - 256 ELSE b

\* x << n on an int holding x
Shl(x, n) == x * Pow2(n)

\* x >> n on a non-negative int
Shr(x, n) == x \div Pow2(n)

\* ------------------------------------------------------------ key codec
\* _strtoul(str, size, base): str is a sequence of bytes.  With base 16 each
\* char is shifted into place; otherwise the shifted value is truncated to an
\* unsigned char before it is added.  The keys encoded with base 16 are
\* ASCII, so the 32-bit sum does not wrap.
StrToUlTerm(b, sh, base) ==
    IF base = 16 THEN Shl(SChar(b), sh)
                 ELSE Shl(SChar(b), sh) % 256

_strtoul(str, size, base) ==
    LET sum[i \in 0..size] ==
            IF i = 0 THEN 0
            ELSE sum[i - 1] + StrToUlTerm(str[i], (size - i) * 8, base)
    IN  sum[size]

\* the C string held in a buffer of character codes: it ends at the first 0
RECURSIVE CString(_)
CString(codes) ==
    IF codes = <<>> \/ Head(codes) = 0 THEN <<>>
    ELSE << Chr(Head(codes)) >> \o CString(Tail(codes))

\* _ultostr(str, val): sprintf of the four bytes of val with "%c%c%c%c", most
\* significant first
_ultostr(val) ==
    CString(<< (val \div 16777216) % 256, (val \div 65536) % 256,
               (val \div 256) % 256, val % 256 >>)

\* the bytes of a C string
Bytes(s) == [i \in 1..Len(s) |-> ASCII[s[i]]]

\* the 32-bit form of a four-character tag
Tag32(s) == _strtoul(Bytes(s), 4, 16)

\* ------------------------------------------------------ value decoders
Num(q) == [k |-> "num", q |-> q]
NaN == [k |-> "nan", q |-> 0]

\* comparisons of a float with zero (every comparison with a NaN is false)
Neg(v) == v.k = "num" /\ v.q < 0
Pos(v) == v.k = "num" /\ v.q > 0

\* _strtof(str, size, e), size >= 1, in quarter units: every byte but the
\* last is shifted as a signed char, the last one is masked before its shift,
\* and the low two bits of the last byte are added as quarters.
StrToFTerm(b, i, size, e) ==
    IF i = size THEN Shr(b % 256, e)
                ELSE Shl(SChar(b), (size - i) * (8 - e))

_strtof(str, size, e) ==
    LET sum[i \in 0..size] ==
            IF i = 0 THEN 0 ELSE sum[i - 1] + StrToFTerm(str[i], i, size, e)
    IN  4 * sum[size] + (str[size] % 4)

\* memcpy(&fval, val.bytes, sizeof(float)) on a little-endian machine: the
\* IEEE-754 single held in the first four bytes.  Exact for zeros, NaNs and
\* the normal numbers that are a whole number of quarters below 2^29, which
\* is what FltSamples holds.
FltDecode(bytes) ==
    LET sign == bytes[4] \div 128
        ex   == (bytes[4] % 128) * 2 + bytes[3] \div 128
        man  == (bytes[3] % 128) * 65536 + bytes[2] * 256 + bytes[1]
        mag  == IF ex >= 148 THEN (8388608 + man) * Pow2(ex - 148)
                ELSE (8388608 + man) \div Pow2(148 - ex)
    IN  IF ex = 255 THEN NaN
        ELSE IF ex = 0 THEN Num(0)
        ELSE Num(IF sign = 1 THEN 0 - mag ELSE mag)

Success(result) == result = kIOReturnSuccess

\* getSMCtemp as it would be with byte 0 read as an unsigned char
getSMCtempUnsigned(result, val) ==
    IF Success(result) /\ val.dataSize > 0 /\ val.dataType = <<"s","p","7","8">>
    THEN val.bytes[1] * 256 + val.bytes[2]
    ELSE 0

\* getSMCtemp, after its SMCReadKey returned result and val; 1/256 degree
getSMCtemp(result, val) ==
    IF Success(result) /\ val.dataSize > 0 /\ val.dataType = <<"s","p","7","8">>
    THEN SChar(val.bytes[1]) * 256 + val.bytes[2]
    ELSE 0

\* getSMCrpm, after its SMCReadKey returned result and val
getSMCrpm(result, val) ==
    IF Success(result) /\ val.dataSize > 0 /\ val.dataType = <<"f","l","t"," ">>
    THEN FltDecode(val.bytes)
    ELSE IF Success(result) /\ val.dataSize > 0
            /\ val.dataType = <<"f","p","e","2">>
    THEN Num(_strtof(val.bytes, val.dataSize, 2))
    ELSE Num(-4)

\* influxSMCtemp prints a line for this temperature
TempPrinted(temperature) == temperature > 0

\* pct of influxSMCfans: (cur - min) / (max - min) * 100, set to 0 when below
\* 0.  A zero divisor gives an infinity or, for 0/0, a NaN.
FanPct(cur, min, max) ==
    IF cur.k = "nan" \/ min.k = "nan" \/ max.k = "nan"
    THEN [k |-> "nan", n |-> 0, d |-> 1]
    ELSE LET n0 == 100 * (cur.q - min.q)
             d0 == max.q - min.q
             n  == IF d0 < 0 THEN 0 - n0 ELSE n0
             d  == IF d0 < 0 THEN 0 - d0 ELSE d0
         IN  IF d0 = 0
             THEN IF n0 = 0 THEN [k |-> "nan", n |-> 0, d |-> 1]
                  ELSE IF n0 > 0 THEN [k |-> "inf", n |-> 1, d |-> 0]
                  ELSE [k |-> "num", n |-> 0, d |-> 1]
             ELSE IF n < 0 THEN [k |-> "num", n |-> 0, d |-> 1]
                  ELSE [k |-> "num", n |-> n, d |-> d]

\* the switch on i of influxSMCfans: the label it leaves in fanID
FanLabel(i, nFans, fanID) ==
    IF i = 0 THEN (IF nFans = 1 THEN "Main" ELSE "Left")
    ELSE IF i = 1 THEN "Right"
    ELSE IF i = 63 THEN "Other"
    ELSE fanID

\* sprintf("%d", i) for i >= 0
RECURSIVE Digits(_)
Digits(i) ==
    IF i < 10 THEN << Chr(48 + i) >>
    ELSE Append(Digits(i \div 10), Chr(48 + (i % 10)))

\* sprintf(key, "F%dID", i) and its three siblings
FanKey(stage, i) == <<"F">> \o Digits(i) \o
    (CASE stage = "ID" -> <<"I","D">>
       [] stage = "Ac" -> <<"A","c">>
       [] stage = "Mn" -> <<"M","n">>
       [] stage = "Mx" -> <<"M","x">>)

\* the string does not fit key[5] with its terminator
Overflows(key) == Len(key) + 1 > KeyBufLen

\* ------------------------------------------------- what the controller says
FNumKey == <<"F","N","u","m">>

\* dataSize values the key-info call reports for a key
DataSizes(key) == IF key = FNumKey THEN {0, 1, 2, 4} ELSE {0, 2}

\* dataType values the key-info call reports
DataTypes == {Tag32(<<"s","p","7","8">>), Tag32(<<"f","p","e","2">>),
              Tag32(<<"f","l","t"," ">>), Tag32(<<"u","i","8"," ">>)}

\* values of the first and of the second byte of a fan reading
Byte0Vals == {0, 44, 128, 255}
Byte1Vals == {0, 252}

\* values of the first and of the second byte of a temperature reading
TempByte0Vals == {0, 1, 44, 127, 128, 255}
TempByte1Vals == {0, 1, 128, 255}

\* little-endian singles: 1200.0, -1.0 and a quiet NaN
FltSamples == { <<0, 0, 150, 68>>, <<0, 0, 128, 191>>, <<0, 0, 192, 127>> }

\* fan counts the controller reports in the last byte of FNum
FanCounts == {0, 1, 2, 3, MaxFans}

\* the first four of the 32 bytes the read-bytes call returns
Buffers(key, dataType) ==
    IF key = FNumKey
    THEN { <<a, b, 0, 0>> : a \in {0, 1, MaxFans}, b \in FanCounts }
    ELSE IF dataType = <<"f","l","t"," ">> THEN FltSamples
    ELSE IF key[1] = "T"
    THEN { <<a, b, 0, 0>> : a \in TempByte0Vals, b \in TempByte1Vals }
    ELSE { <<a, b, 0, 0>> : a \in Byte0Vals, b \in Byte1Vals }

\* what an uninitialised fanID may print as
GarbageLabels == {"", "Other", "Right"}

\* what the key-info call may report: a size and a type, nothing on failure
KeyInfos(key, result) ==
    IF result = kIOReturnSuccess
    THEN { [dataSize |-> z, dataType |-> t] : z \in DataSizes(key),
                                              t \in DataTypes }
    ELSE { [dataSize |-> 0, dataType |-> 0] }

\* ------------------------------------------------------------------- main
T(key, sensor) == [f |-> "temp", key |-> key, sensor |-> sensor]
FansCall == [f |-> "fans", key |-> <<>>, sensor |-> ""]

\* the calls of the -A branch of main, in order
AllTemps ==
    << T(<<"T","C","0","P">>, "CPU"),
       T(<<"T","C","0","p">>, "CPU"),
       T(<<"T","C","X","r">>, "CPU-Package"),
       T(<<"T","C","X","R">>, "CPU-Package"),
       T(<<"T","C","0","E">>, "CPU-Virtual-1"),
       T(<<"T","C","0","F">>, "CPU-Virtual-2"),
       T(<<"T","C","1","C">>, "CPU-Core-1"),
       T(<<"T","C","2","C">>, "CPU-Core-2"),
       T(<<"T","C","3","C">>, "CPU-Core-3"),
       T(<<"T","C","4","C">>, "CPU-Core-4"),
       T(<<"T","C","5","C">>, "CPU-Core-5"),
       T(<<"T","C","6","C">>, "CPU-Core-6"),
       T(<<"T","C","7","C">>, "CPU-Core-7"),
       T(<<"T","C","8","C">>, "CPU-Core-8"),
       T(<<"T","C","0","c">>, "CPU-Core-1"),
       T(<<"T","C","1","c">>, "CPU-Core-2"),
       T(<<"T","C","2","c">>, "CPU-Core-3"),
       T(<<"T","C","3","c">>, "CPU-Core-4"),
       T(<<"T","G","0","P">>, "GPU"),
       T(<<"T","G","1","P">>, "GPU-VRAM"),
       T(<<"T","G","0","D">>, "GPU-Die"),
       T(<<"T","G","0","p">>, "GPU"),
       T(<<"T","H","0","P">>, "HDD"),
       T(<<"T","H","0","V">>, "HDD-Drive"),
       T(<<"T","H","0","X">>, "SSD"),
       T(<<"T","H","0","F">>, "SSD-Filtered"),
       T(<<"T","H","0","a">>, "SSD-Drive-0-A"),
       T(<<"T","H","0","b">>, "SSD-Drive-0-B"),
       T(<<"T","H","1","a">>, "SSD-Drive-1-A"),
       T(<<"T","H","1","b">>, "SSD-Drive-1-B"),
       T(<<"T","H","1","c">>, "SSD-Drive-1-C"),
       T(<<"T","H","1","A">>, "SSD-Drive-1-A"),
       T(<<"T","H","1","B">>, "SSD-Drive-1-B"),
       T(<<"T","L","0","P">>, "LCD"),
       T(<<"T","L","0","V">>, "LCD-Front-Right"),
       T(<<"T","L","0","p">>, "LCD-Front"),
       T(<<"T","L","1","V">>, "LCD-Front-Center"),
       T(<<"T","s","0","S">>, "Memory"),
       T(<<"T","M","0","P">>, "Memory-Bank-1"),
       T(<<"T","M","1","P">>, "Memory-Bank-2"),
       T(<<"T","M","0","p">>, "Memory-DIMM-1"),
       T(<<"T","M","1","p">>, "Memory-DIMM-2"),
       T(<<"T","M","2","p">>, "Memory-DIMM-3"),
       T(<<"T","M","3","p">>, "Memory-DIMM-4"),
       T(<<"T","M","4","1">>, "Memory-Virtual"),
       T(<<"T","m","0","P">>, "Mainboard"),
       T(<<"T","m","1","P">>, "Mainboard-Bottom"),
       T(<<"T","W","0","P">>, "WiFi"),
       T(<<"T","B","1","T">>, "Battery-1"),
       T(<<"T","B","2","T">>, "Battery-2"),
       T(<<"T","A","0","V">>, "Ambient"),
       T(<<"T","s","0","P">>, "Palm-Rest-1"),
       T(<<"T","s","1","P">>, "Palm-Rest-2"),
       T(<<"T","s","1","S">>, "Skin-Top"),
       T(<<"T","A","0","P">>, "Airflow-1"),
       T(<<"T","A","1","P">>, "Airflow-2"),
       T(<<"T","h","1","H">>, "Heatpipe-Left"),
       T(<<"T","h","2","H">>, "Heatpipe-Right"),
       T(<<"T","S","0","V">>, "Skin"),
       T(<<"T","b","0","p">>, "Backlight"),
       T(<<"T","b","0","P">>, "BLC"),
       T(<<"T","P","C","D">>, "PCH-Die"),
       T(<<"T","C","G","C">>, "PECI-GPU"),
       T(<<"T","C","X","C">>, "PECI-CPU"),
       T(<<"T","C","M","X">>, "PECI-MAX"),
       T(<<"T","C","S","A">>, "PECI-SA"),
       T(<<"T","C","G","c">>, "PECI-GPU"),
       T(<<"T","C","S","c">>, "PECI-SA"),
       T(<<"T","C","X","c">>, "PECI-CPU"),
       T(<<"T","e","0","T">>, "TBT-Diode"),
       T(<<"T","m","0","p">>, "EMC-Diode"),
       T(<<"T","p","0","C">>, "Power-Supply"),
       T(<<"T","p","2","h">>, "Power-Supply-Heatsink") >>

NoFlags == [cpu |-> FALSE, gpu |-> FALSE, wfi |-> FALSE, ssd |-> FALSE,
            fan |-> FALSE, all |-> FALSE, tag |-> FALSE, usage |-> FALSE]

\* one pass of the switch in the getopt loop; an option character that is
\* not in "aAcfghwsn?" comes back from getopt as '?'
Option(fl, c) ==
    CASE c = "a" -> [fl EXCEPT !.cpu = TRUE, !.gpu = TRUE, !.fan = TRUE,
                               !.wfi = TRUE, !.ssd = TRUE]
      [] c = "A" -> [fl EXCEPT !.all = TRUE]
      [] c = "c" -> [fl EXCEPT !.cpu = TRUE]
      [] c = "f" -> [fl EXCEPT !.fan = TRUE]
      [] c = "g" -> [fl EXCEPT !.gpu = TRUE]
      [] c = "w" -> [fl EXCEPT !.wfi = TRUE]
      [] c = "s" -> [fl EXCEPT !.ssd = TRUE]
      [] c = "n" -> [fl EXCEPT !.tag = TRUE]
      [] OTHER   -> [fl EXCEPT !.usage = TRUE]

\* the getopt loop: it returns from main at the first 'h' or '?'
RECURSIVE Getopt(_, _)
Getopt(args, fl) ==
    IF args = <<>> \/ fl.usage THEN fl
    ELSE Getopt(Tail(args), Option(fl, Head(args)))

\* "default -a"
Defaults(fl) ==
    IF ~fl.cpu /\ ~fl.gpu /\ ~fl.fan /\ ~fl.wfi /\ ~fl.ssd /\ ~fl.all
    THEN [fl EXCEPT !.cpu = TRUE, !.gpu = TRUE, !.fan = TRUE,
                    !.wfi = TRUE, !.ssd = TRUE]
    ELSE fl

\* the calls main makes between SMCOpen and SMCClose, in order
Calls(fl) ==
    IF fl.all THEN Append(AllTemps, FansCall)
    ELSE (IF fl.cpu THEN << T(<<"T","C","0","P">>, "CPU") >> ELSE <<>>)
      \o (IF fl.gpu THEN << T(<<"T","G","0","P">>, "GPU") >> ELSE <<>>)
      \o (IF fl.ssd THEN << T(<<"T","H","0","X">>, "SSD") >> ELSE <<>>)
      \o (IF fl.wfi THEN << T(<<"T","W","0","P">>, "WiFi") >> ELSE <<>>)
      \o (IF fl.fan THEN << FansCall >> ELSE <<>>)

\* ------------------------------------------------------------------ state
VARIABLES
    pc,           \* where main is: "start", "run", "exit", "usage", "abort"
    argv,         \* the option characters of the command line
    conn,         \* the connection: "null", "open" or "closed"
    opened,       \* what SMCOpen returned: "none", "ok" or "failed"
    closes,       \* the number of SMCClose calls
    todo,         \* the calls main has still to make before SMCClose
    fan,          \* the locals of influxSMCfans
    rk,           \* the current or latest SMCReadKey: its key, calls and result
    temperature,  \* the local of influxSMCtemp, in 1/256 degree; 0 outside it
    out           \* the line printed by the latest step

vars == << pc, argv, conn, opened, closes, todo, fan, rk, temperature, out >>

ArgChars == {"a", "A", "c", "f", "g", "h", "w", "s", "n", "?", "x"}

RECURSIVE SeqsUpTo(_, _)
SeqsUpTo(S, n) ==
    IF n = 0 THEN { <<>> }
    ELSE LET shorter == SeqsUpTo(S, n - 1)
         IN  shorter \cup { Append(q, c) : q \in shorter, c \in S }

NoLine == [m |-> "none"]

TempLine(key, sensor, temp) ==
    [m |-> "temperature", key |-> key, sensor |-> sensor, temp |-> temp]

FanLine(i, label, cur, pct) ==
    [m |-> "fan", i |-> i, sensor |-> label, rpm |-> cur, percent |-> pct]

ZeroBytes == <<0, 0, 0, 0>>
ZeroVal == [dataSize |-> 0, dataType |-> <<>>, bytes |-> ZeroBytes]

NoReadKey == [caller |-> "none", key |-> <<>>, ret |-> "none",
              calls |-> <<>>, val |-> ZeroVal]

\* influxSMCfans not entered; fanID is uninitialised at entry
FanIdle == [stage |-> "none", nFans |-> 0, i |-> 0, cur |-> Num(0),
            min |-> Num(0), fanID |-> "uninit"]

\* influxSMCfans entered, about to read FNum
FanEntry == [FanIdle EXCEPT !.stage = "FNum"]

\* the locals of influxSMCfans when main goes on to the calls t
EnterCall(t) ==
    IF t # <<>> /\ Head(t).f = "fans" THEN FanEntry ELSE FanIdle

Init ==
    /\ pc = "start"
    /\ argv \in SeqsUpTo(ArgChars, MaxArgs)
    /\ conn = "null"
    /\ opened = "none"
    /\ closes = 0
    /\ todo = <<>>
    /\ fan = FanIdle
    /\ rk = NoReadKey
    /\ temperature = 0
    /\ out = NoLine

\* ------------------------------------------------------- main: the options
\* the getopt loop ends in the usage text and return -1
MainUsage ==
    /\ pc = "start"
    /\ Getopt(argv, NoFlags).usage
    /\ pc' = "usage"
    /\ argv' = <<>>
    /\ UNCHANGED << conn, opened, closes, todo, fan, rk, temperature, out >>

\* SMCOpen: the three places it returns 1 from, or success
OpenOutcomes == {"IOServiceGetMatchingServices", "no SMC found",
                 "IOServiceOpen", kIOReturnSuccess}

\* the getopt loop ends normally; main applies the default and calls SMCOpen,
\* whose return value it does not look at
MainOpen ==
    /\ pc = "start"
    /\ ~Getopt(argv, NoFlags).usage
    /\ \E o \in OpenOutcomes :
          /\ conn' = IF Success(o) THEN "open" ELSE conn
          /\ opened' = IF Success(o) THEN "ok" ELSE "failed"
    /\ pc' = "run"
    /\ argv' = <<>>
    /\ todo' = Calls(Defaults(Getopt(argv, NoFlags)))
    /\ fan' = EnterCall(todo')
    /\ UNCHANGED << closes, rk, temperature, out >>

\* SMCClose, once the calls are made, and return 0
MainClose ==
    /\ pc = "run"
    /\ todo = <<>>
    /\ closes' = closes + 1
    /\ conn' = IF conn = "open" THEN "closed" ELSE conn
    /\ pc' = "exit"
    /\ out' = NoLine
    /\ UNCHANGED << argv, opened, todo, fan, rk, temperature >>

\* ----------------------------------------------------------- influxSMCfans
\* the loop goes on to fan i + 1, or ends (stage "none": the function has
\* returned, and fan shows its locals as they were then)
FanNext(f) ==
    IF f.i + 1 < f.nFans
    THEN [f EXCEPT !.stage = "ID", !.i = f.i + 1, !.cur = Num(0),
                   !.min = Num(0)]
    ELSE [f EXCEPT !.stage = "none"]

\* influxSMCfans from the return of one of its reads to its next read: f are
\* its locals, result and val what the read returned, g what is printed for a
\* fanID that was never assigned.  The result is the new locals and the line
\* printed.
FanStep(f, result, val, g) ==
    CASE f.stage = "FNum" ->
           IF ~Success(result)
           THEN [fan |-> [f EXCEPT !.stage = "none"], out |-> NoLine]
           ELSE LET n == _strtoul(val.bytes, val.dataSize, 10)
                IN  [fan |-> [f EXCEPT !.nFans = n, !.i = 0,
                                       !.stage = IF 0 < n THEN "ID" ELSE "none"],
                     out |-> NoLine]
      [] f.stage = "ID" ->
           IF ~Success(result)
           THEN [fan |-> FanNext(f), out |-> NoLine]
           ELSE [fan |-> [f EXCEPT !.stage = "Ac"], out |-> NoLine]
      [] f.stage = "Ac" ->
           LET cur == getSMCrpm(result, val)
           IN  IF Neg(cur)
               THEN [fan |-> FanNext(f), out |-> NoLine]
               ELSE [fan |-> [f EXCEPT !.stage = "Mn", !.cur = cur],
                     out |-> NoLine]
      [] f.stage = "Mn" ->
           LET min == getSMCrpm(result, val)
           IN  IF Neg(min)
               THEN [fan |-> FanNext(f), out |-> NoLine]
               ELSE [fan |-> [f EXCEPT !.stage = "Mx", !.min = min],
                     out |-> NoLine]
      [] f.stage = "Mx" ->
           LET max   == getSMCrpm(result, val)
               label == FanLabel(f.i, f.nFans, f.fanID)
               shown == IF label = "uninit" THEN g ELSE label
           IN  IF Neg(max)
               THEN [fan |-> FanNext(f), out |-> NoLine]
               ELSE [fan |-> FanNext([f EXCEPT !.fanID = label]),
                     out |-> IF Pos(f.cur)
                             THEN FanLine(f.i, shown, f.cur,
                                          FanPct(f.cur, f.min, max))
                             ELSE NoLine]

\* the strings an unassigned fanID can print as, when this step prints it
Garbage(f) ==
    IF f.stage = "Mx" /\ FanLabel(f.i, f.nFans, f.fanID) = "uninit"
    THEN GarbageLabels ELSE {""}

\* ------------------------------------------------------------- SMCReadKey
InTemp == todo # <<>> /\ Head(todo).f = "temp"
InFans == todo # <<>> /\ Head(todo).f = "fans"

\* the key of the next SMCReadKey
CurrentKey ==
    IF InTemp THEN Head(todo).key
    ELSE IF fan.stage = "FNum" THEN FNumKey
    ELSE FanKey(fan.stage, fan.i)

\* the function that calls it
Caller ==
    IF InTemp THEN "getSMCtemp"
    ELSE IF fan.stage \in {"FNum", "ID"} THEN "influxSMCfans"
    ELSE "getSMCrpm"

\* SMCCall: what the kernel may return on connection c
CallResults(c) ==
    IF c = "open" THEN {kIOReturnSuccess} \cup CallFailures ELSE {BadConn}

\* SMCCall leaves the connection as it is, whatever the call returned
ConnAfterCall(c, result) == c

\* SMCReadKey as it would be without the check of the key-info result
KeyInfoAbortsNever(result) == FALSE

\* SMCReadKey returns after the key-info call without making the second call
KeyInfoAborts(result) == ~Success(result)

\* main as it would be if it gave up at the first failed read
AfterCallStopsOnFailure(t, result) == IF Success(result) THEN Tail(t) ELSE <<>>

\* the calls main still has to make once the call at the head of t returned
AfterCall(t, result) == Tail(t)

\* SMCReadKey hands result and val back to its caller, which runs up to the
\* next SMCReadKey (or up to SMCClose)
Return(result, val, g) ==
    IF InTemp
    THEN /\ temperature' = getSMCtemp(result, val)
         /\ out' = IF TempPrinted(temperature')
                   THEN TempLine(Head(todo).key, Head(todo).sensor,
                                 temperature')
                   ELSE NoLine
         /\ todo' = AfterCall(todo, result)
         /\ fan' = EnterCall(todo')
    ELSE LET r == FanStep(fan, result, val, g)
         IN  /\ out' = r.out
             /\ todo' = IF r.fan.stage = "none" THEN Tail(todo) ELSE todo
             /\ fan' = r.fan
             /\ temperature' = 0

Call(cmd, key, size, result, outSize) ==
    [index |-> KERNEL_INDEX_SMC, cmd |-> cmd, key |-> key, dataSize |-> size,
     result |-> result, outSize |-> outSize]

\* SMCReadKey from its entry through the SMC_CMD_READ_KEYINFO call
SMCReadKeyInfo ==
    /\ pc = "run"
    /\ todo # <<>>
    /\ rk.ret # "pending"
    /\ \E result \in CallResults(conn) :
       \E info \in KeyInfos(CurrentKey, result) :
          LET key32 == _strtoul(Bytes(CurrentKey), 4, 16)
              size  == info.dataSize
              type  == info.dataType
              call  == Call(SMC_CMD_READ_KEYINFO, key32, 0, result, size)
          IN  /\ conn' = ConnAfterCall(conn, result)
              /\ IF KeyInfoAborts(result)
                 THEN /\ rk' = [caller |-> Caller, key |-> CurrentKey,
                                ret |-> result, calls |-> << call >>,
                                val |-> ZeroVal]
                      /\ Return(result, ZeroVal, "")
                 ELSE /\ rk' = [caller |-> Caller, key |-> CurrentKey,
                                ret |-> "pending", calls |-> << call >>,
                                val |-> [dataSize |-> size,
                                         dataType |-> _ultostr(type),
                                         bytes |-> ZeroBytes]]
                      /\ out' = NoLine
                      /\ temperature' = 0
                      /\ UNCHANGED << todo, fan >>
    /\ UNCHANGED << pc, argv, opened, closes >>

\* SMCReadKey from the SMC_CMD_READ_BYTES call to its return
SMCReadBytes ==
    /\ pc = "run"
    /\ rk.ret = "pending"
    /\ \E result \in CallResults(conn),
          bytes \in Buffers(rk.key, rk.val.dataType), g \in Garbage(fan) :
          LET call == Call(SMC_CMD_READ_BYTES, rk.calls[1].key,
                           rk.val.dataSize, result, 0)
              val  == IF Success(result) THEN [rk.val EXCEPT !.bytes = bytes]
                      ELSE rk.val
          IN  /\ conn' = ConnAfterCall(conn, result)
              /\ rk' = [rk EXCEPT !.ret = result,
                                  !.calls = Append(rk.calls, call),
                                  !.val = val]
              /\ Return(result, val, g)
    /\ UNCHANGED << pc, argv, opened, closes >>

\* sprintf wrote past the end of key and the run was stopped for it
SprintfAbort ==
    /\ pc = "run"
    /\ InFans
    /\ rk.ret # "pending"
    /\ Overflows(CurrentKey)
    /\ pc' = "abort"
    /\ out' = NoLine
    /\ UNCHANGED << argv, conn, opened, closes, todo, fan, rk, temperature >>

Next ==
    \/ MainUsage
    \/ MainOpen
    \/ SMCReadKeyInfo
    \/ SMCReadBytes
    \/ SprintfAbort
    \/ MainClose

Spec == Init /\ [][Next]_vars

\* ================================================================ claims

\* the 32-bit big-endian packing of a four-character key
EncodeKey(key) ==
    ASCII[key[1]] * 16777216 + ASCII[key[2]] * 65536
        + ASCII[key[3]] * 256 + ASCII[key[4]]

\* the latest SMCReadKey has returned, and nothing has happened since
Returned == pc = "run" /\ rk.caller # "none" /\ rk.ret # "pending"

\* C1: SMCReadKey is a two-phase exchange in fixed order.  Its first call is
\* the read-key-info request for the encoded key; the read-bytes request is
\* made only after that call succeeded and carries the dataSize it returned.
\* If the first call fails there is no second call, SMCReadKey returns that
\* failure, val is all zero and no line is printed; if the second call fails
\* SMCReadKey returns that failure; it returns success only when both calls
\* succeeded.
C1_TwoPhaseOrder ==
    LET c == rk.calls
    IN  /\ Len(c) <= 2
        /\ rk.caller # "none" => Len(c) >= 1
        /\ Len(c) >= 1 =>
              /\ c[1].cmd = SMC_CMD_READ_KEYINFO
              /\ c[1].key = EncodeKey(rk.key)
        /\ Len(c) = 2 =>
              /\ Success(c[1].result)
              /\ c[2].cmd = SMC_CMD_READ_BYTES
              /\ c[2].key = c[1].key
              /\ c[2].dataSize = c[1].outSize
        /\ (Len(c) >= 1 /\ ~Success(c[1].result)) =>
              /\ Len(c) = 1
              /\ rk.ret = c[1].result
              /\ rk.val = ZeroVal
              /\ out = NoLine
        /\ (Len(c) = 2 /\ ~Success(c[2].result)) => rk.ret = c[2].result
        /\ Success(rk.ret) <=>
              (Len(c) = 2 /\ Success(c[1].result) /\ Success(c[2].result))

\* a read on an open connection whose key-info call failed has returned
C1_Witness ==
    /\ Returned
    /\ conn = "open"
    /\ Len(rk.calls) = 1
    /\ rk.ret \in CallFailures

\* C2: a key exchange is issued only while the session is open: as long as
\* SMCOpen has not succeeded no SMCCall is made and no line is printed, and
\* none is made after SMCClose.
C2_CallsOnlyWhileOpen ==
    /\ opened # "ok" => (rk.calls = <<>> /\ out = NoLine)
    /\ rk.ret = "pending" => conn = "open"

\* C3: on every exit path the number of SMCClose calls is the number of
\* successful SMCOpen calls: one after a successful open, none when the open
\* failed, none on the usage path (which does not open either).
C3_CloseMatchesOpen ==
    /\ pc = "exit" => closes = (IF opened = "ok" THEN 1 ELSE 0)
    /\ pc = "usage" => (closes = 0 /\ opened = "none")
    /\ pc \in {"start", "run"} => closes = 0

\* the sp78 value of two bytes, in 1/256 degree: the first byte as a signed
\* 8-bit number times 256, plus the second byte as an unsigned one
Sp78(bytes) ==
    (IF bytes[1] >= 128 THEN bytes[1] - 256 ELSE bytes[1]) * 256 + bytes[2]

\* what the latest read brought is a positive sp78 temperature
GoodTemp(r) ==
    /\ Success(r.ret)
    /\ r.val.dataSize > 0
    /\ r.val.dataType = <<"s","p","7","8">>
    /\ Sp78(r.val.bytes) > 0

\* C4: a failed SMCReadKey of a temperature key touches that key only.  In
\* every step of a temperature read the connection stays as it is, the read
\* is the one for the key at the head of the remaining calls and makes at
\* most two calls; the step in which the read returns, success or failure,
\* removes exactly that key from the remaining calls (one attempt, the other
\* keys follow in their order), and it prints a line, for that key, if and
\* only if this key's own exchange brought a positive sp78 value.
C4_FailureIsLocal ==
    [][ (pc = "run" /\ InTemp) =>
          /\ conn' = conn
          /\ pc' = "run"
          /\ rk'.key = Head(todo).key
          /\ Len(rk'.calls) <= 2
          /\ IF rk'.ret = "pending"
             THEN todo' = todo /\ out' = NoLine /\ rk.ret # "pending"
             ELSE /\ todo' = Tail(todo)
                  /\ (out' # NoLine) <=> GoodTemp(rk')
                  /\ out' # NoLine =>
                        /\ out'.m = "temperature"
                        /\ out'.key = Head(todo).key ]_vars

\* a temperature read failed on an open connection; the connection is still
\* open and main is about to read the next temperature key
C4_Witness ==
    /\ Returned
    /\ rk.caller = "getSMCtemp"
    /\ rk.ret \in CallFailures
    /\ conn = "open"
    /\ InTemp
    /\ Head(todo).key # rk.key

\* C5: every key handed to SMCReadKey is exactly four characters long and
\* fits key[5] with its terminator, the generated fan keys included, and no
\* run is stopped for writing past the buffer.
C5_KeysAreFourChars ==
    /\ rk.caller # "none" => (Len(rk.key) = 4 /\ ~Overflows(rk.key))
    /\ pc # "abort"

\* the big-endian unsigned value of the first size bytes
RECURSIVE BigEndian(_, _)
BigEndian(bytes, size) ==
    IF size = 0 THEN 0
    ELSE 256 * BigEndian(bytes, size - 1) + bytes[size]

\* the latest read is that of FNum
AfterFNum == Returned /\ rk.key = FNumKey

\* C6: the fan count is the big-endian unsigned value of the dataSize bytes
\* of FNum; when it is 0, or the FNum read failed, influxSMCfans returns
\* without a per-fan read and without a line.
C6_FanCountBigEndian ==
    AfterFNum =>
        /\ Success(rk.ret) =>
              fan.nFans = BigEndian(rk.val.bytes, rk.val.dataSize)
        /\ (~Success(rk.ret) \/ fan.nFans = 0) =>
              (fan.stage = "none" /\ todo = <<>> /\ out = NoLine)

\* the latest read is the one of F{i}Ac and brought a two-byte fpe2 value
AfterFpe2Ac ==
    /\ Returned
    /\ rk.caller = "getSMCrpm"
    /\ SubSeq(rk.key, Len(rk.key) - 1, Len(rk.key)) = <<"A","c">>
    /\ Success(rk.ret)
    /\ rk.val.dataSize = 2
    /\ rk.val.dataType = <<"f","p","e","2">>

\* C7: the fixed-point decoder takes every byte as unsigned: a two-byte fpe2
\* value (b0, b1) is 256*b0 + 4*(b1 >> 2) + (b1 & 3) quarters, never
\* negative, so a fan whose F{i}Ac read brought one is not taken as absent:
\* influxSMCfans goes on to read F{i}Mn with that value as cur.
C7_Fpe2Unsigned ==
    AfterFpe2Ac =>
        /\ fan.stage = "Mn"
        /\ fan.cur = Num(256 * rk.val.bytes[1]
                         + 4 * (rk.val.bytes[2] \div 4)
                         + (rk.val.bytes[2] % 4))

\* C8: a temperature line is printed for a key if and only if its SMCReadKey
\* succeeded, dataSize > 0, the type is "sp78" and the value (byte 0 as a
\* signed 8-bit number * 256 + byte 1 unsigned) / 256 is greater than 0, and
\* the line carries that value; for a failed read, dataSize 0 or another type
\* getSMCtemp returns 0.0; a value that is not positive is never printed.
C8_TempLineIff ==
    (Returned /\ rk.caller = "getSMCtemp") =>
        /\ (out.m = "temperature") <=> GoodTemp(rk)
        /\ out.m = "temperature" =>
              (out.key = rk.key /\ out.temp = Sp78(rk.val.bytes))
        /\ ~(/\ Success(rk.ret)
             /\ rk.val.dataSize > 0
             /\ rk.val.dataType = <<"s","p","7","8">>) => temperature = 0
        /\ (/\ Success(rk.ret)
            /\ rk.val.dataSize > 0
            /\ rk.val.dataType = <<"s","p","7","8">>) =>
              temperature = Sp78(rk.val.bytes)
        /\ temperature <= 0 => out = NoLine

\* an sp78 reading of -1.0 (bytes FF 00) came back and no line was printed
C8_Witness ==
    /\ Returned
    /\ rk.caller = "getSMCtemp"
    /\ Success(rk.ret)
    /\ rk.val.dataSize > 0
    /\ rk.val.dataType = <<"s","p","7","8">>
    /\ rk.val.bytes[1] = 255
    /\ rk.val.bytes[2] = 0
    /\ temperature = -256
    /\ out = NoLine

\* the latest read is one of the four per-fan reads
FanRead == rk.caller \in {"influxSMCfans", "getSMCrpm"} /\ rk.key # FNumKey

\* C9: for each fan index i in [0, n), in ascending order, influxSMCfans
\* reads F{i}ID, F{i}Ac, F{i}Mn, F{i}Mx: the key it sends is the key with
\* that index, and the loop always goes on to the next index.  A line is
\* printed only for a positive cur, and its percent is never negative.
C9_FanReadsInOrder ==
    /\ FanRead => _ultostr(rk.calls[1].key) = rk.key
    /\ pc # "abort" \/ ~FanRead
    /\ out.m = "fan" =>
          /\ Pos(out.rpm)
          /\ out.percent.k = "num" => out.percent.n >= 0

\* C10: the label of a printed fan line depends on its index and the fan
\* count only: "Main" or "Left" for index 0, "Right" for index 1, and no
\* label for an index of 2 or more.
C10_LabelByIndex ==
    out.m = "fan" =>
        out.sensor = (IF out.i = 0
                      THEN (IF fan.nFans = 1 THEN "Main" ELSE "Left")
                      ELSE IF out.i = 1 THEN "Right" ELSE "")

====
